---------------------------- MODULE Spec2Model ----------------------------
(***************************************************************************)
(* Model of webcam.py: the ThreadedWebcamStreamer capture pipeline (device *)
(* handle, capture thread, bounded frame queue, camera switch) and the     *)
(* StreamHandler requests served by a single-threaded HTTPServer.          *)
(***************************************************************************)
EXTENDS Integers, Sequences, FiniteSets, TLC

(* ----------------------------- bounds ---------------------------------- *)
\* Spec: one camera switch with enough frames to fill and overrun the queue
MaxSwitches == 1      \* /api/camera requests issued in one behaviour
MaxFrames == 4        \* frames the devices deliver in one behaviour
MaxTimeouts == 2      \* join(timeout=2) calls that time out in one behaviour
\* SpecSwitch: two camera switches
SwSwitches == 2
SwFrames == 3
SwTimeouts == 1
\* FairSpec: the fairly scheduled system
FairSwitches == 1
FairFrames == 3
FairTimeouts == 0
\* SpecShutdown: the server is interrupted at any moment
ShutSwitches == 1
ShutFrames == 3
ShutTimeouts == 1
\* FairSpecStop: the fairly scheduled system with joins that time out
StopSwitches == 1
StopFrames == 3
StopTimeouts == 2
MaxPending == 2       \* requests waiting in the listen queue at one time
NHandlers == 2        \* request handlers that exist at one time

(* ------------------------- program constants --------------------------- *)
BUFFER_SIZE == 2
JPEG_QUALITY == 85

\* cameras: the ids get_available_cameras() registered (even /dev/video nodes)
cameras == {0, 2, 4}
\* ids a client may put in /api/camera?id=..., one of them not registered
RequestIds == cameras \cup {6}
\* current_camera = find_best_camera() at import time
InitialCamera == 0

Handlers == 1..NHandlers
Threads == 1..(SwSwitches + 1)

NoFrame == [h |-> 0, seq |-> 0]
NoData == << >>
NoReq == [kind |-> "none", id |-> 0, n |-> 0]
Requests == [kind : {"camera"}, id : RequestIds] \cup {[kind |-> "stream", id |-> 0]}

(* ----------------------- external collaborators ------------------------ *)
\* Frame rates are counted in hundredths of a frame per second, the grain of
\* the float cap.get(cv2.CAP_PROP_FPS) returns.
\* the candidate rates a device accepts in cap.set(cv2.CAP_PROP_FPS, r)
DevRates(d) == IF d = 0 THEN {15, 20, 25, 30}
               ELSE IF d = 2 THEN {15, 20, 25, 30, 36, 45, 60}
               ELSE {}
\* what cap.get(cv2.CAP_PROP_FPS) echoes after an accepted request for r:
\* device 2 runs on the 1000/1001 time base (59.94 for 60, 29.97 for 30)
DevEcho(d, r) == IF d = 2 THEN (r * 100000) \div 1001 ELSE r * 100
\* the rate a freshly opened device reports
DevDefaultRate(d) == IF d = 4 THEN 1000 ELSE 3000
\* get_camera_specs(device_num): (width, height) pairs, largest first
get_camera_specs(d) == IF d = 0 THEN << <<1280, 720>>, <<640, 480>> >>
                       ELSE IF d = 2 THEN << <<1920, 1080>>, <<1280, 720>> >>
                       ELSE << >>
\* the mode a freshly opened device is in
DevNative(d) == IF d = 4 THEN <<320, 240>> ELSE <<640, 480>>
\* the mode the device really is in after a request for (w, h)
DevEffective(d, w, h) == IF d = 2 THEN <<1280, 720>> ELSE <<w, h>>

VARIABLES
  current_camera,   \* module global current_camera
  camera_id,        \* streamer.camera_id
  handles,          \* every cv2.VideoCapture object created so far
  cap,              \* streamer.cap: index into handles
  fps, max_fps,     \* streamer.fps, streamer.max_fps
  width, height,    \* streamer.width, streamer.height
  frame_queue,      \* streamer.frame_queue (queue.Queue(maxsize=BUFFER_SIZE))
  current_frame,    \* streamer.current_frame
  capture_thread,   \* streamer.capture_thread: index of the latest thread, 0 = None
  running,          \* streamer.running
  tpc,              \* position of each capture thread in _capture_frames
  tcap,             \* the handle a capture thread last evaluated self.cap to
  tframe,           \* local variable frame of _capture_frames
  nextSeq,          \* number of frames the devices have delivered
  pending,          \* requests sent by clients and not yet accepted
  hpc,              \* position of each request handler in do_GET
  req,              \* the request a handler serves
  frame,            \* local variable frame of get_frame
  frame_data,       \* local variable frame_data of the /stream.mjpg loop
  closed,           \* the client of the handler's connection has gone away
  issued,           \* number of /api/camera requests issued
  timeouts,         \* number of join calls that timed out
  main,             \* position of the main thread in __main__
  swlog,            \* history: the /api/camera requests served, in order
  lastPub,          \* history: the frame published last
  since             \* history: what happened since the previous get_frame call

streamerVars == <<camera_id, handles, cap, fps, max_fps, width, height,
                  frame_queue, current_frame, capture_thread, running>>
threadVars == <<tpc, tcap, tframe, nextSeq>>
connVars == <<pending, hpc, req, frame, frame_data, closed, issued, timeouts>>
histVars == <<swlog, lastPub, since>>
vars == <<current_camera, streamerVars, threadVars, connVars, main, histVars>>

(* ------------------------------ helpers -------------------------------- *)
\* the device a frame was captured from
DevOf(f) == handles[f.h].dev

\* cv2.imencode('.jpg', frame, [quality, optimize]) followed by tobytes()
imencode(f) == <<"jpg", JPEG_QUALITY, f>>

\* threading.Thread.is_alive()
is_alive(t) == tpc[t] \notin {"unborn", "dead"}

\* fps_to_test of detect_camera_capabilities
fps_to_test == <<60, 45, 36, 30, 25, 20, 15>>

\* (variant: the last echo is kept instead of the largest)
KeepMax_last(actual_fps, best) == actual_fps

\* if actual_fps > max_fps: max_fps = actual_fps
KeepMax(actual_fps, best) == IF actual_fps > best THEN actual_fps ELSE best

\* Python's int() on a non-negative float, here on hundredths
int(x) == x \div 100

\* the probe loop: rate is what the device currently runs at, best the
\* running max_fps; a request the device does not accept leaves rate alone
RECURSIVE ProbeFrom(_, _, _, _)
ProbeFrom(d, i, rate, best) ==
  IF i > Len(fps_to_test) THEN best
  ELSE LET actual_fps == IF fps_to_test[i] \in DevRates(d)
                         THEN DevEcho(d, fps_to_test[i]) ELSE rate
       IN ProbeFrom(d, i + 1, actual_fps, KeepMax(actual_fps, best))

\* max_fps = 15; the loop; self.max_fps = int(max_fps); self.fps = self.max_fps
detect_camera_capabilities(d) == int(ProbeFrom(d, 1, DevDefaultRate(d), 15 * 100))

\* set_resolution(max_w, max_h) when the capability list is not empty:
\* the recorded size is what the device reads back
set_resolution(d, w, h, res) ==
  IF res # << >> THEN DevEffective(d, res[1][1], res[1][2]) ELSE <<w, h>>

(* ------------------------------- Init ---------------------------------- *)
\* the state after "streamer = ThreadedWebcamStreamer(current_camera)":
\* the camera is open and the first capture thread has been started
Init ==
  /\ current_camera = InitialCamera
  /\ camera_id = InitialCamera
  /\ handles = << [dev |-> InitialCamera, open |-> TRUE] >>
  /\ cap = 1
  /\ fps = detect_camera_capabilities(InitialCamera)
  /\ max_fps = detect_camera_capabilities(InitialCamera)
  /\ width = set_resolution(InitialCamera, 640, 480,
                            get_camera_specs(InitialCamera))[1]
  /\ height = set_resolution(InitialCamera, 640, 480,
                             get_camera_specs(InitialCamera))[2]
  /\ frame_queue = << >>
  /\ current_frame = NoFrame
  /\ capture_thread = 1
  /\ running = TRUE
  /\ tpc = [t \in Threads |-> IF t = 1 THEN "loop" ELSE "unborn"]
  /\ tcap = [t \in Threads |-> 0]
  /\ tframe = [t \in Threads |-> NoFrame]
  /\ nextSeq = 0
  /\ pending = {}
  /\ hpc = [c \in Handlers |-> "idle"]
  /\ req = [c \in Handlers |-> NoReq]
  /\ frame = [c \in Handlers |-> NoFrame]
  /\ frame_data = [c \in Handlers |-> NoData]
  /\ closed = [c \in Handlers |-> FALSE]
  /\ issued = 0
  /\ timeouts = 0
  /\ main = "serve"
  /\ swlog = << >>
  /\ lastPub = NoFrame
  /\ since = "none"

(* ------------------- the capture thread: _capture_frames --------------- *)
\* while self.running:
LoopTest(t) ==
  /\ tpc[t] = "loop"
  /\ tpc' = [tpc EXCEPT ![t] = IF running THEN "check" ELSE "dead"]
  /\ UNCHANGED <<current_camera, streamerVars, tcap, tframe, nextSeq,
                 connVars, histVars>>

\* if self.cap and self.cap.isOpened():  ... else: time.sleep(0.1)
CapCheck(t) ==
  /\ tpc[t] = "check"
  /\ tcap' = [tcap EXCEPT ![t] = IF cap # 0 /\ handles[cap].open THEN cap ELSE 0]
  /\ tpc' = [tpc EXCEPT ![t] = IF cap # 0 /\ handles[cap].open
                               THEN "call" ELSE "loop"]
  /\ UNCHANGED <<current_camera, streamerVars, tframe, nextSeq,
                 connVars, histVars>>

\* self.cap.read() is entered: self.cap is evaluated again.  On a handle
\* that has been released the call returns (False, None) at once (then
\* time.sleep(1.0 / self.fps)); on an open handle it blocks in the device.
ReadBegin(t) ==
  /\ tpc[t] = "call"
  /\ tcap' = [tcap EXCEPT ![t] = IF handles[cap].open THEN cap ELSE 0]
  /\ tpc' = [tpc EXCEPT ![t] = IF handles[cap].open THEN "read" ELSE "loop"]
  /\ UNCHANGED <<current_camera, streamerVars, tframe, nextSeq,
                 connVars, histVars>>

\* ret, frame = self.cap.read() returns.  An open handle delivers a frame or
\* fails transiently.  A handle that open_camera released while this thread
\* was blocked in it (an unsynchronised release) may still deliver the frame
\* it was waiting for, or fail.
ReadEnd(t, frames) ==
  /\ tpc[t] = "read"
  /\ \E ret \in BOOLEAN :
       IF ret
       THEN /\ nextSeq < frames
            /\ nextSeq' = nextSeq + 1
            /\ tframe' = [tframe EXCEPT ![t] = [h |-> tcap[t], seq |-> nextSeq + 1]]
            /\ tpc' = [tpc EXCEPT ![t] = "full"]
       ELSE /\ tpc' = [tpc EXCEPT ![t] = "loop"]
            /\ UNCHANGED <<tframe, nextSeq>>
  /\ tcap' = [tcap EXCEPT ![t] = 0]
  /\ UNCHANGED <<current_camera, streamerVars, connVars, histVars>>

\* if self.frame_queue.full():
FullTest(t) ==
  /\ tpc[t] = "full"
  /\ tpc' = [tpc EXCEPT ![t] = IF Len(frame_queue) >= BUFFER_SIZE
                               THEN "pop" ELSE "put"]
  /\ UNCHANGED <<current_camera, streamerVars, tcap, tframe, nextSeq,
                 connVars, histVars>>

\* self.frame_queue.get_nowait()  (queue.Empty is passed over)
DropOldest(t) ==
  /\ tpc[t] = "pop"
  /\ frame_queue' = IF frame_queue # << >> THEN Tail(frame_queue) ELSE frame_queue
  /\ tpc' = [tpc EXCEPT ![t] = "put"]
  /\ UNCHANGED <<current_camera, camera_id, handles, cap, fps, max_fps, width,
                 height, current_frame, capture_thread, running,
                 tcap, tframe, nextSeq, connVars, histVars>>

\* the queue after put(frame, block=False) has succeeded
Enqueue(q, f) == Append(q, f)

\* self.frame_queue.put(frame, block=False); queue.Full is swallowed and the
\* frame is lost; then time.sleep(1.0 / self.fps) and back to the loop test
Publish(t) ==
  /\ tpc[t] = "put"
  /\ IF Len(frame_queue) < BUFFER_SIZE
     THEN /\ frame_queue' = Enqueue(frame_queue, tframe[t])
          /\ lastPub' = tframe[t]
          /\ since' = IF since \in {"quiet", "repeat"} THEN "pub" ELSE since
     ELSE UNCHANGED <<frame_queue, lastPub, since>>
  /\ tframe' = [tframe EXCEPT ![t] = NoFrame]
  /\ tpc' = [tpc EXCEPT ![t] = "loop"]
  /\ UNCHANGED <<current_camera, camera_id, handles, cap, fps, max_fps, width,
                 height, current_frame, capture_thread, running,
                 tcap, nextSeq, connVars, swlog>>

(* --------------------------- client side -------------------------------- *)
\* a client connects and sends GET /api/camera?id=n or GET /stream.mjpg; the
\* request waits in the listen queue until the server accepts it
Connect(r, switches) ==
  /\ r \notin pending
  /\ Cardinality(pending) < MaxPending
  /\ r.kind = "camera" => issued < switches
  /\ pending' = pending \cup {r}
  /\ issued' = IF r.kind = "camera" THEN issued + 1 ELSE issued
  /\ UNCHANGED <<current_camera, streamerVars, threadVars, hpc, req, frame,
                 frame_data, closed, timeouts, histVars>>

\* the client of a running /stream.mjpg response goes away
Disconnect(c) ==
  /\ hpc[c] \in {"get", "store", "emit"}
  /\ ~closed[c]
  /\ closed' = [closed EXCEPT ![c] = TRUE]
  /\ UNCHANGED <<current_camera, streamerVars, threadVars, pending, hpc, req,
                 frame, frame_data, issued, timeouts, histVars>>

(* ------------------------- HTTPServer.serve_forever --------------------- *)
\* (variant: a ThreadingHTTPServer, which accepts while a handler runs)
CanAccept_threading == TRUE

\* HTTPServer (not ThreadingHTTPServer) runs do_GET inside serve_forever: the
\* next request is accepted only after the handler of the previous returned
CanAccept == \A d \in Handlers : hpc[d] = "idle"

\* do_GET dispatch on self.path
Accept(c, r) ==
  /\ hpc[c] = "idle"
  /\ \A d \in Handlers : d < c => hpc[d] # "idle"
  /\ r \in pending
  /\ CanAccept
  /\ pending' = pending \ {r}
  /\ req' = [req EXCEPT ![c] = [kind |-> r.kind, id |-> r.id,
                               n |-> IF r.kind = "camera" THEN Len(swlog) + 1 ELSE 0]]
  /\ hpc' = [hpc EXCEPT ![c] = IF r.kind = "camera" THEN "api" ELSE "get"]
  /\ swlog' = IF r.kind = "camera"
              THEN Append(swlog, [id |-> r.id, out |-> "run",
                                  with |-> {q.id : q \in {p \in pending \ {r} :
                                                           p.kind = "camera"}}])
              ELSE swlog
  /\ since' = IF r.kind = "stream" THEN "none" ELSE since
  /\ UNCHANGED <<current_camera, streamerVars, threadVars, frame, frame_data,
                 closed, issued, timeouts, lastPub>>

\* do_GET returns (or raises into handle_error) and the connection is closed
Finish(c, out) ==
  /\ hpc' = [hpc EXCEPT ![c] = "idle"]
  /\ req' = [req EXCEPT ![c] = NoReq]
  /\ frame_data' = [frame_data EXCEPT ![c] = NoData]
  /\ closed' = [closed EXCEPT ![c] = FALSE]
  /\ swlog' = IF req[c].kind = "camera"
              THEN [swlog EXCEPT ![req[c].n].out = out]
              ELSE swlog

(* --------------------------- /api/camera -------------------------------- *)
\* (variant: the global is not assigned)
NewCurrentCamera_kept(old, new) == old

\* the value of current_camera after "current_camera = new_camera_id"
NewCurrentCamera(old, new) == new

\* (variant: every id is taken for a registered one)
InRegistry_any(id) == TRUE

\* if new_camera_id in cameras:
InRegistry(id) == id \in cameras

\* if new_camera_id in cameras: current_camera = new_camera_id; then
\* streamer.switch_camera(current_camera) is entered
ApiCamera(c) ==
  /\ hpc[c] = "api"
  /\ IF InRegistry(req[c].id)
     THEN /\ current_camera' = NewCurrentCamera(current_camera, req[c].id)
          /\ hpc' = [hpc EXCEPT ![c] = "stop1"]
     ELSE /\ hpc' = [hpc EXCEPT ![c] = "respond"]
          /\ UNCHANGED current_camera
  /\ UNCHANGED <<streamerVars, threadVars, pending, req, frame, frame_data,
                 closed, issued, timeouts, histVars>>

\* stop_capture_thread: self.running = False
\* ("stop1": called by switch_camera, "stop2": by start_capture_thread)
StopSignal(c) ==
  /\ hpc[c] \in {"stop1", "stop2"}
  /\ running' = FALSE
  /\ hpc' = [hpc EXCEPT ![c] = IF hpc[c] = "stop1" THEN "join1" ELSE "join2"]
  /\ UNCHANGED <<current_camera, camera_id, handles, cap, fps, max_fps, width,
                 height, frame_queue, current_frame, capture_thread,
                 threadVars, pending, req, frame, frame_data, closed, issued, timeouts,
                 histVars>>

\* self.capture_thread.join(timeout=2) returns: the thread has ended, or the
\* two seconds ran out while it was blocked in cap.read()
JoinEnded(t) == t = 0 \/ ~is_alive(t)
JoinTimedOut(t) == t # 0 /\ tpc[t] = "read"

Join(c, maxTimeouts) ==
  /\ hpc[c] \in {"join1", "join2"}
  /\ \/ /\ JoinEnded(capture_thread)
        /\ UNCHANGED timeouts
     \/ /\ JoinTimedOut(capture_thread)
        /\ timeouts < maxTimeouts
        /\ timeouts' = timeouts + 1
  /\ hpc' = [hpc EXCEPT ![c] = IF hpc[c] = "join1" THEN "setid" ELSE "start"]
  /\ UNCHANGED <<current_camera, streamerVars, threadVars, pending, req, frame,
                 frame_data, closed, issued, histVars>>

\* (variant: the assignment is left out)
NewCameraId_kept(old, new) == old

\* the value of self.camera_id after "self.camera_id = camera_id"
NewCameraId(old, new) == new

\* self.camera_id = camera_id
SetCameraId(c) ==
  /\ hpc[c] = "setid"
  /\ camera_id' = NewCameraId(camera_id, req[c].id)
  /\ hpc' = [hpc EXCEPT ![c] = "drain"]
  /\ UNCHANGED <<current_camera, handles, cap, fps, max_fps, width, height,
                 frame_queue, current_frame, capture_thread, running,
                 threadVars, pending, req, frame, frame_data, closed, issued, timeouts,
                 histVars>>

\* while not self.frame_queue.empty(): self.frame_queue.get_nowait()
Drain(c) ==
  /\ hpc[c] = "drain"
  /\ IF frame_queue # << >>
     THEN /\ frame_queue' = Tail(frame_queue)
          /\ UNCHANGED hpc
     ELSE /\ hpc' = [hpc EXCEPT ![c] = "clear"]
          /\ UNCHANGED frame_queue
  /\ UNCHANGED <<current_camera, camera_id, handles, cap, fps, max_fps, width,
                 height, current_frame, capture_thread, running,
                 threadVars, pending, req, frame, frame_data, closed, issued, timeouts,
                 histVars>>

\* self.current_frame = None
ClearCurrent(c) ==
  /\ hpc[c] = "clear"
  /\ current_frame' = NoFrame
  /\ hpc' = [hpc EXCEPT ![c] = "release"]
  /\ since' = "none"
  /\ UNCHANGED <<current_camera, camera_id, handles, cap, fps, max_fps, width,
                 height, frame_queue, capture_thread, running,
                 threadVars, pending, req, frame, frame_data, closed, issued, timeouts,
                 swlog, lastPub>>

\* open_camera: if self.cap: self.cap.release(); time.sleep(0.5)
Release(c) ==
  /\ hpc[c] = "release"
  /\ handles' = IF cap # 0 THEN [handles EXCEPT ![cap].open = FALSE] ELSE handles
  /\ hpc' = [hpc EXCEPT ![c] = "open"]
  /\ UNCHANGED <<current_camera, camera_id, cap, fps, max_fps, width, height,
                 frame_queue, current_frame, capture_thread, running,
                 threadVars, pending, req, frame, frame_data, closed, issued, timeouts,
                 histVars>>

\* open_camera: self.cap = cv2.VideoCapture(self.camera_id, cv2.CAP_V4L2);
\* if it is opened: probe the rate, set the resolution and read it back;
\* else: raise Exception, which ends do_GET without a response
Open(c) ==
  /\ hpc[c] = "open"
  /\ \E ok \in BOOLEAN :
       /\ handles' = Append(handles, [dev |-> camera_id, open |-> ok])
       /\ cap' = Len(handles) + 1
       /\ IF ok
          THEN /\ fps' = detect_camera_capabilities(camera_id)
               /\ max_fps' = detect_camera_capabilities(camera_id)
               /\ width' = set_resolution(camera_id, width, height,
                                          get_camera_specs(camera_id))[1]
               /\ height' = set_resolution(camera_id, width, height,
                                           get_camera_specs(camera_id))[2]
               /\ hpc' = [hpc EXCEPT ![c] = "alive"]
               /\ UNCHANGED <<req, frame_data, closed, swlog>>
          ELSE /\ Finish(c, "error")
               /\ UNCHANGED <<fps, max_fps, width, height>>
  /\ UNCHANGED <<current_camera, camera_id, frame_queue, current_frame,
                 capture_thread, running, threadVars, pending, frame,
                 issued, timeouts, lastPub, since>>

\* start_capture_thread: if self.capture_thread and
\* self.capture_thread.is_alive(): self.stop_capture_thread()
AliveTest(c) ==
  /\ hpc[c] = "alive"
  /\ hpc' = [hpc EXCEPT ![c] = IF capture_thread # 0 /\ is_alive(capture_thread)
                               THEN "stop2" ELSE "start"]
  /\ UNCHANGED <<current_camera, streamerVars, threadVars, pending, req, frame,
                 frame_data, closed, issued, timeouts, histVars>>

\* start_capture_thread: self.running = True; a new Thread running
\* _capture_frames is created and started; switch_camera returns True
StartThread(c) ==
  /\ hpc[c] = "start"
  /\ \E t \in Threads :
       /\ tpc[t] = "unborn"
       /\ \A u \in Threads : u < t => tpc[u] # "unborn"
       /\ running' = TRUE
       /\ capture_thread' = t
       /\ tpc' = [tpc EXCEPT ![t] = "loop"]
  /\ hpc' = [hpc EXCEPT ![c] = "respond"]
  /\ UNCHANGED <<current_camera, camera_id, handles, cap, fps, max_fps, width,
                 height, frame_queue, current_frame, tcap, tframe, nextSeq,
                 pending, req, frame, frame_data, closed, issued, timeouts, histVars>>

\* send_response(200) ... self.wfile.write(b'OK')
Respond(c) ==
  /\ hpc[c] = "respond"
  /\ Finish(c, "200")
  /\ UNCHANGED <<current_camera, streamerVars, threadVars, pending, frame,
                 issued, timeouts, lastPub, since>>

(* ---------------------------- /stream.mjpg ------------------------------ *)
\* (variant: the newest queued frame is taken)
TakeFrame_newest(q, cur) == IF q # << >> THEN q[Len(q)] ELSE cur

\* the frame get_frame takes: the head of the queue, or current_frame when
\* get_nowait raises queue.Empty
TakeFrame(q, cur) == IF q # << >> THEN Head(q) ELSE cur

\* get_frame: if frame is not None: return the encoded frame; return None
Returned(f) == IF f # NoFrame THEN imencode(f) ELSE NoData

\* get_frame: frame = self.frame_queue.get_nowait(), or on queue.Empty
\* frame = self.current_frame, encoded and returned
GetFrame(c) ==
  /\ hpc[c] = "get"
  /\ since' = IF since \in {"quiet", "repeat"} THEN "repeat" ELSE "quiet"
  /\ IF frame_queue # << >>
     THEN /\ frame' = [frame EXCEPT ![c] = TakeFrame(frame_queue, current_frame)]
          /\ frame_queue' = Tail(frame_queue)
          /\ hpc' = [hpc EXCEPT ![c] = "store"]
          /\ UNCHANGED frame_data
     ELSE /\ frame_data' = [frame_data EXCEPT ![c] =
                              Returned(TakeFrame(frame_queue, current_frame))]
          /\ hpc' = [hpc EXCEPT ![c] = "emit"]
          /\ UNCHANGED <<frame_queue, frame>>
  /\ UNCHANGED <<current_camera, camera_id, handles, cap, fps, max_fps, width,
                 height, current_frame, capture_thread, running,
                 threadVars, pending, req, closed, issued, timeouts, swlog, lastPub>>

\* (variant: the frame taken from the queue is not remembered)
StoredFrame_forgotten(f, cur) == cur

\* the value self.current_frame has after "self.current_frame = frame"
StoredFrame(f, cur) == f

\* get_frame: self.current_frame = frame; the frame is encoded and returned
StoreFrame(c) ==
  /\ hpc[c] = "store"
  /\ current_frame' = StoredFrame(frame[c], current_frame)
  /\ frame_data' = [frame_data EXCEPT ![c] = Returned(frame[c])]
  /\ frame' = [frame EXCEPT ![c] = NoFrame]
  /\ hpc' = [hpc EXCEPT ![c] = "emit"]
  /\ UNCHANGED <<current_camera, camera_id, handles, cap, fps, max_fps, width,
                 height, frame_queue, capture_thread, running,
                 threadVars, pending, req, closed, issued, timeouts, histVars>>

\* if frame_data: write one multipart part, then time.sleep(0.033) and the
\* next round
Emit(c) ==
  /\ hpc[c] = "emit"
  /\ ~(frame_data[c] # NoData /\ closed[c])
  /\ hpc' = [hpc EXCEPT ![c] = "get"]
  /\ UNCHANGED <<current_camera, streamerVars, threadVars, pending, req, frame,
                 frame_data, closed, issued, timeouts, histVars>>

\* self.wfile.write raises BrokenPipeError / ConnectionResetError because the
\* client is gone: the loop ends silently and do_GET returns
WriteFails(c) ==
  /\ hpc[c] = "emit"
  /\ frame_data[c] # NoData /\ closed[c]
  /\ Finish(c, "closed")
  /\ UNCHANGED <<current_camera, streamerVars, threadVars, pending, frame,
                 issued, timeouts, lastPub, since>>

(* ------------------------- __main__: shutdown -------------------------- *)
\* except KeyboardInterrupt: Ctrl-C ends serve_forever, and with it the
\* handler that was running, wherever it was
Interrupt ==
  /\ main = "serve"
  /\ main' = "stop"
  /\ UNCHANGED <<current_camera, streamerVars, threadVars, connVars, histVars>>

\* streamer.stop_capture_thread(): self.running = False
ShutdownStop ==
  /\ main = "stop"
  /\ running' = FALSE
  /\ main' = "join"
  /\ UNCHANGED <<current_camera, camera_id, handles, cap, fps, max_fps, width,
                 height, frame_queue, current_frame, capture_thread,
                 threadVars, connVars, histVars>>

\* streamer.stop_capture_thread(): self.capture_thread.join(timeout=2)
\* returns, or a further Ctrl-C raises KeyboardInterrupt out of the wait:
\* nothing encloses the call, so the exception ends the process
ShutdownJoin ==
  /\ main = "join"
  /\ \/ /\ JoinEnded(capture_thread) \/ JoinTimedOut(capture_thread)
        /\ main' = "release"
     \/ /\ capture_thread # 0 /\ is_alive(capture_thread)
        /\ main' = "exit"
  /\ UNCHANGED <<current_camera, streamerVars, threadVars, connVars, histVars>>

\* if streamer.cap: streamer.cap.release(); the process ends
ShutdownRelease ==
  /\ main = "release"
  /\ handles' = IF cap # 0 THEN [handles EXCEPT ![cap].open = FALSE] ELSE handles
  /\ main' = "exit"
  /\ UNCHANGED <<current_camera, camera_id, cap, fps, max_fps, width, height,
                 frame_queue, current_frame, capture_thread, running,
                 threadVars, connVars, histVars>>

ShutdownStep == Interrupt \/ ShutdownStop \/ ShutdownJoin \/ ShutdownRelease

(* ------------------------------- Next ----------------------------------- *)
\* the capture threads are daemon threads: they run until the process exits
ThreadStep(t, frames) ==
  /\ main # "exit"
  /\ \/ LoopTest(t) \/ CapCheck(t) \/ ReadBegin(t) \/ ReadEnd(t, frames)
     \/ FullTest(t) \/ DropOldest(t) \/ Publish(t)
  /\ UNCHANGED main

\* do_GET runs in the main thread, inside server.serve_forever()
HandlerStep(c, maxTimeouts) ==
  /\ main = "serve"
  /\ \/ (\E r \in Requests : Accept(c, r))
     \/ ApiCamera(c) \/ StopSignal(c) \/ Join(c, maxTimeouts) \/ SetCameraId(c)
     \/ Drain(c) \/ ClearCurrent(c) \/ Release(c) \/ Open(c) \/ AliveTest(c)
     \/ StartThread(c) \/ Respond(c)
     \/ GetFrame(c) \/ StoreFrame(c) \/ Emit(c) \/ WriteFails(c)
  /\ UNCHANGED main

ClientStep(switches) ==
  /\ main = "serve"
  /\ \/ (\E r \in Requests : Connect(r, switches))
     \/ (\E c \in Handlers : Disconnect(c))
  /\ UNCHANGED main

NextWithin(switches, frames, maxTimeouts) ==
  \/ \E t \in Threads : ThreadStep(t, frames)
  \/ \E c \in Handlers : HandlerStep(c, maxTimeouts)
  \/ ClientStep(switches)

Next == NextWithin(MaxSwitches, MaxFrames, MaxTimeouts)
Spec == Init /\ [][Next]_vars

NextSwitch == NextWithin(SwSwitches, SwFrames, SwTimeouts)
SpecSwitch == Init /\ [][NextSwitch]_vars

\* the server with Ctrl-C arriving at any moment
NextShutdown == NextWithin(ShutSwitches, ShutFrames, ShutTimeouts) \/ ShutdownStep
SpecShutdown == Init /\ [][NextShutdown]_vars

(* ---------------------------- specifications ---------------------------- *)
\* the handlers and the capture threads are scheduled fairly; clients are
\* free to send nothing
FairNext == NextWithin(FairSwitches, FairFrames, FairTimeouts)
FairSpec ==
  /\ Init /\ [][FairNext]_vars
  /\ \A c \in Handlers : WF_vars(HandlerStep(c, FairTimeouts))
  /\ \A t \in Threads : WF_vars(ThreadStep(t, FairFrames))

\* the same, with a capture thread that may stay blocked in cap.read() for
\* longer than the join timeout
FairNextStop == NextWithin(StopSwitches, StopFrames, StopTimeouts)
FairSpecStop ==
  /\ Init /\ [][FairNextStop]_vars
  /\ \A c \in Handlers : WF_vars(HandlerStep(c, StopTimeouts))
  /\ \A t \in Threads : WF_vars(ThreadStep(t, StopFrames))

(* ------------------------------- claims --------------------------------- *)
SwitchPcs == {"stop1", "join1", "setid", "drain", "clear", "release", "open",
              "alive", "stop2", "join2", "start"}
StreamPcs == {"get", "store", "emit"}

\* the raw frame inside what get_frame returned
Decode(d) == IF d = NoData THEN NoFrame ELSE d[3]

\* the last /api/camera request served was a switch that returned True
LastSwitchReturned ==
  /\ swlog # << >>
  /\ swlog[Len(swlog)].out = "200"
  /\ swlog[Len(swlog)].id \in cameras

\* C1: once switch_camera(B) has returned, no get_frame() call returns a
\* frame captured from the device that was active before the switch: every
\* frame a responder holds was captured from the device camera_id names.
C1_NoStaleFrameAfterSwitch ==
  \A c \in Handlers :
    (hpc[c] = "emit" /\ frame_data[c] # NoData /\ LastSwitchReturned)
      => DevOf(Decode(frame_data[c])) = camera_id

\* C2: at most one capture thread is executing _capture_frames.
C2_AtMostOneCaptureThread ==
  Cardinality({t \in Threads : is_alive(t)}) <= 1

\* two /api/camera requests for registered ids that waited in the listen
\* queue together have both been served and no request is being served
BothSwitchesFinished ==
  /\ Len(swlog) >= 2
  /\ swlog[2].id \in swlog[1].with
  /\ swlog[1].id \in cameras /\ swlog[2].id \in cameras
  /\ swlog[1].out # "run" /\ swlog[2].out # "run"
  /\ Len(swlog) = 2
  /\ \A c \in Handlers : hpc[c] = "idle"

\* C3: after two concurrently issued switch requests for B and C have both
\* finished, camera_id, the device of the handle in cap and current_camera
\* name the same id, which is B or C; the handle is open when the switch
\* served last returned.
C3_OneActiveDevice ==
  BothSwitchesFinished =>
    /\ camera_id = current_camera
    /\ handles[cap].dev = camera_id
    /\ camera_id \in {swlog[1].id, swlog[2].id}
    /\ swlog[2].out = "200" => handles[cap].open
    /\ \A h \in 1..Len(handles) : handles[h].open => h = cap

C3_Witness ==
  /\ BothSwitchesFinished
  /\ swlog[1].out = "200" /\ swlog[2].out = "200"
  /\ swlog[1].id # swlog[2].id
  /\ InitialCamera \notin {swlog[1].id, swlog[2].id}

\* C4: switch requests are serialized: never are two executions of
\* switch_camera in progress at the same time.
C4_SwitchesSerialized ==
  Cardinality({c \in Handlers : hpc[c] \in SwitchPcs}) <= 1

C4_Witness ==
  /\ \E c \in Handlers : hpc[c] \in SwitchPcs
  /\ \E r \in pending : r.kind = "camera" /\ r.id \in cameras

\* a step in which handler c executes the queue access of get_frame
GetStep(c) == hpc[c] = "get" /\ hpc'[c] # "get"
\* ... and the frame that call is going to return
Got(c) == IF hpc'[c] = "store" THEN frame'[c] ELSE Decode(frame_data'[c])

\* C5 (as claimed): whenever a frame has been published in the current relay
\* generation, get_frame() returns the most recently published frame.
C5_ReturnsLatestPublished ==
  [][\A c \in Handlers :
       (GetStep(c) /\ lastPub # NoFrame /\ lastPub.h = cap)
         => Got(c) = lastPub]_vars

\* C5 (amended): get_frame() returns the oldest frame still queued: with one
\* frame queued that is the most recently published frame, with two queued
\* it is the frame published before it, and with the queue empty it is the
\* frame handed out last (current_frame).
C5_ReturnsOldestQueued ==
  [][\A c \in Handlers : GetStep(c) =>
       /\ Len(frame_queue) = 1 => Got(c) = lastPub
       /\ Len(frame_queue) = 2 =>
            Got(c) = frame_queue[1] /\ frame_queue[2] = lastPub /\ Got(c) # lastPub
       /\ Len(frame_queue) = 0 => Got(c) = current_frame]_vars

C5_Witness ==
  \E c \in Handlers :
    /\ hpc[c] = "store"
    /\ Len(frame_queue) = 1 /\ frame_queue[1] = lastPub
    /\ frame[c] # lastPub /\ frame[c].h = lastPub.h

\* C6: get_frame() returns None only when no frame has been produced: once a
\* frame has been published in the current relay generation, get_frame()
\* returns a frame.
C6_NoneOnlyBeforeFirstFrame ==
  [][\A c \in Handlers :
       (GetStep(c) /\ lastPub # NoFrame /\ lastPub.h = cap)
         => Got(c) # NoFrame]_vars

\* C7 (as claimed): if no frame is published between two consecutive
\* get_frame() calls, both return the same frame.
C7_IdempotentRead ==
  [][\A c \in Handlers :
       (GetStep(c) /\ since \in {"quiet", "repeat"})
         => Got(c) = Decode(frame_data[c])]_vars

\* C7 (amended): if no frame is published and no camera switch happens
\* between two consecutive get_frame() calls and the queue is empty at the
\* second call, both return the same frame; a second frame that was still
\* queued is what the second call returns instead.
C7_IdempotentReadOnEmptyQueue ==
  [][\A c \in Handlers :
       (GetStep(c) /\ since \in {"quiet", "repeat"}) =>
         /\ frame_queue = << >> => Got(c) = Decode(frame_data[c])
         /\ frame_queue # << >> =>
              Got(c) = frame_queue[1] /\ Got(c) # Decode(frame_data[c])]_vars

C7_Witness ==
  \E c \in Handlers :
    /\ hpc[c] = "emit" /\ since = "repeat"
    /\ frame_data[c] # NoData
    /\ current_frame = Decode(frame_data[c])
    /\ frame_queue = << >>

\* C8: the frames a responder obtains from successive get_frame() calls are
\* non-decreasing in capture order.
C8_MonotonicFrames ==
  [][\A c \in Handlers :
       (frame_data[c] # NoData /\ frame_data'[c] # NoData)
         => Decode(frame_data'[c]).seq >= Decode(frame_data[c]).seq]_vars

\* C9: every frame the capture thread read is enqueued (the put never loses
\* the new frame), the queue never holds more than BUFFER_SIZE frames, and
\* the put is enabled whatever the handlers are doing.
C9_PublishNeverDropsNewFrame ==
  /\ [](Len(frame_queue) <= BUFFER_SIZE)
  /\ [](\A t \in Threads : tpc[t] = "put" => ENABLED Publish(t))
  /\ [][\A t \in Threads :
          (tpc[t] = "put" /\ tpc'[t] # "put")
            => frame_queue' = Append(frame_queue, tframe[t])]_vars

\* C10: a responder whose client has disconnected eventually leaves its
\* streaming loop, and its leaving changes nothing in the relay or in the
\* other handlers.
C10_DisconnectedResponderTerminates ==
  /\ \A c \in Handlers : closed[c] ~> (hpc[c] \notin StreamPcs)
  /\ [][\A c \in Handlers :
          (hpc[c] \in StreamPcs /\ hpc'[c] \notin StreamPcs) =>
            /\ UNCHANGED <<current_camera, streamerVars, threadVars>>
            /\ \A d \in Handlers \ {c} :
                 hpc'[d] = hpc[d] /\ frame_data'[d] = frame_data[d]]_vars

\* the /api/camera request for id has been served and answered 200
Served(id) == \E i \in 1..Len(swlog) : swlog[i].id = id /\ swlog[i].out = "200"

\* C11: a switch request issued while a streaming responder is connected is
\* eventually processed to completion, and that responder, still connected,
\* then holds a frame of the new device - unless its client went away, the
\* new device did not open, or the devices delivered no further frame.
C11_SwitchReachesConnectedResponder ==
  \A c \in Handlers : \A id \in cameras :
    (hpc[c] \in StreamPcs /\ ~closed[c] /\ [kind |-> "camera", id |-> id] \in pending)
      ~> \/ /\ Served(id)
            /\ hpc[c] \in StreamPcs /\ frame_data[c] # NoData
            /\ DevOf(Decode(frame_data[c])) = id
         \/ closed[c] \/ hpc[c] \notin StreamPcs
         \/ \E i \in 1..Len(swlog) : swlog[i].out = "error"
         \/ nextSeq = FairFrames

\* C12: any number of streaming responders run at the same time: while one
\* responder is in its frame loop, a second /stream.mjpg request is
\* eventually served next to it (unless the first one's client goes away),
\* and no responder keeps a capture thread from taking its next step.
C12_ConcurrentResponders ==
  /\ \A c \in Handlers :
       (hpc[c] \in StreamPcs /\ ~closed[c] /\ [kind |-> "stream", id |-> 0] \in pending)
         ~> (closed[c] \/ Cardinality({d \in Handlers : hpc[d] \in StreamPcs}) >= 2)
  /\ [](\A t \in Threads : is_alive(t) => ENABLED ThreadStep(t, FairFrames))

\* the switch served last could not open its device, and has ended
LastSwitchFailed ==
  /\ swlog # << >>
  /\ swlog[Len(swlog)].out # "run"
  /\ ~handles[cap].open
  /\ \A c \in Handlers : hpc[c] \notin SwitchPcs

\* C13: when the open fails in switch_camera, the request is not answered
\* 200, no capture thread is running, no device handle is open, and
\* camera_id and current_camera do not name a device that is not open.
C13_FailedSwitchIsSafe ==
  LastSwitchFailed =>
    /\ swlog[Len(swlog)].out # "200"
    /\ \A t \in Threads : ~is_alive(t)
    /\ \A h \in 1..Len(handles) : ~handles[h].open
    /\ \E h \in 1..Len(handles) : handles[h].open /\ handles[h].dev = camera_id
    /\ \E h \in 1..Len(handles) : handles[h].open /\ handles[h].dev = current_camera

\* C14: on process shutdown both cleanup steps have run, whatever state the
\* shutdown was entered from and even if one step fails: the capture thread
\* has been signalled to stop and the device handle has been released.
C14_ShutdownRunsBothSteps ==
  main = "exit" =>
    /\ ~running
    /\ cap # 0 => ~handles[cap].open

\* the values device d echoes while the candidates are tried in turn: the
\* echo of every candidate it accepts, and its initial rate when it does not
\* accept the first candidate
Echoes(d) ==
  {DevEcho(d, r) : r \in {fps_to_test[i] : i \in 1..Len(fps_to_test)} \cap DevRates(d)}
    \cup (IF fps_to_test[1] \in DevRates(d) THEN {} ELSE {DevDefaultRate(d)})

\* the largest echoed value above the floor of 15, and 15 if there is none
LargestAboveFloor(d) ==
  LET above == {e \in Echoes(d) : e > 15 * 100}
  IN IF above = {} THEN 15 * 100
     ELSE CHOOSE e \in above : \A f \in above : f <= e

\* C15 (as claimed): after a probe fps and max_fps are the largest value the
\* device echoed over the candidates above the floor 15 (15 if none); a
\* device that acknowledges only rates up to 30 gets exactly 30; fps >= 15.
C15_AdoptsLargestEcho ==
  /\ fps >= 15
  /\ handles[cap].open =>
       /\ fps = max_fps
       /\ fps * 100 = LargestAboveFloor(handles[cap].dev)
       /\ handles[cap].dev = 0 => fps = 30

\* C15 (amended): after a probe fps and max_fps are the integer part of the
\* largest value the device echoed above the floor 15 (15 if none): an echo
\* of 59.94 is adopted as 59; a device that acknowledges only whole rates up
\* to 30 gets exactly 30; fps >= 15.
C15_AdoptsIntegerPartOfLargestEcho ==
  /\ fps >= 15
  /\ handles[cap].open =>
       /\ fps = max_fps
       /\ fps = LargestAboveFloor(handles[cap].dev) \div 100
       /\ fps * 100 <= LargestAboveFloor(handles[cap].dev)
       /\ LargestAboveFloor(handles[cap].dev) < (fps + 1) * 100
       /\ handles[cap].dev = 0 => fps = 30

C15_Witness ==
  /\ handles[cap].open /\ Len(handles) > 1
  /\ handles[cap].dev = 2
  /\ fps = 59 /\ LargestAboveFloor(2) = 5994

\* the steps of a switch in the order claimed, by handler position
SwitchOrder == <<"stop1", "join1", "setid", "drain", "clear", "release", "open",
                 "alive", "stop2", "join2", "start">>
StepNo(pc) == CHOOSE i \in 1..Len(SwitchOrder) : SwitchOrder[i] = pc

\* C16: a switch stops (joins) the capture thread, then drains the queue,
\* then clears current_frame, then releases the old handle, then opens the
\* new device, then restarts the thread; each step is complete before the
\* next begins, and no frame is published between the drain and the open.
C16_SwitchStepsInOrder ==
  /\ [][\A c \in Handlers :
          (hpc[c] \in SwitchPcs /\ hpc'[c] \in SwitchPcs /\ hpc'[c] # hpc[c])
            => StepNo(hpc'[c]) > StepNo(hpc[c])]_vars
  /\ [](\A c \in Handlers :
          hpc[c] \in {"drain", "clear", "release", "open"}
            => \A t \in Threads : ~is_alive(t))
  /\ [][(\E c \in Handlers : hpc[c] \in {"drain", "clear", "release", "open"})
          => (Len(frame_queue') <= Len(frame_queue) /\ lastPub' = lastPub)]_vars

\* C17: after stop_capture_thread() is called the capture thread that was
\* running eventually leaves its loop, and stop_capture_thread returns;
\* also when the stop is part of a switch and start_capture_thread sets
\* running back to True.
C17_StoppedThreadExits ==
  /\ \A c \in Handlers : \A t \in Threads :
       (hpc[c] \in {"join1", "join2"} /\ capture_thread = t /\ is_alive(t))
         ~> ~is_alive(t)
  /\ \A c \in Handlers :
       (hpc[c] \in {"stop1", "stop2", "join1", "join2"})
         ~> (hpc[c] \notin {"stop1", "stop2", "join1", "join2"})

\* the mode device d is in once open_camera has configured it: what it made
\* of the request for the first listed size, or the mode it came up in when
\* nothing is listed and nothing is requested
DevMode(d) ==
  IF get_camera_specs(d) # << >>
  THEN DevEffective(d, get_camera_specs(d)[1][1], get_camera_specs(d)[1][2])
  ELSE DevNative(d)

\* C18: after every successful open_camera() the recorded width and height
\* are the effective values of the open device, for every capability list,
\* the empty one included.
C18_RecordedSizeIsEffective ==
  handles[cap].open => <<width, height>> = DevMode(handles[cap].dev)

\* C19: the capture thread never calls read() on a handle that has been
\* released: the handle whose isOpened() was tested is the one read() is
\* called on, and it stays open for as long as the thread is inside read().
C19_ReadsOnlyAnOpenHandle ==
  /\ [][\A t \in Threads :
          (tpc[t] = "call" /\ tpc'[t] # "call")
            => (cap = tcap[t] /\ handles[cap].open)]_vars
  /\ [](\A t \in Threads : tpc[t] = "read" => handles[tcap[t]].open)

\* C20: whenever no switch is in progress, current_camera equals
\* streamer.camera_id, after any sequence of /api/camera requests,
\* successful, failed or overlapping.
C20_CurrentCameraIsCameraId ==
  (\A c \in Handlers : hpc[c] \notin SwitchPcs) => current_camera = camera_id

C20_Witness ==
  /\ Len(swlog) = 2
  /\ swlog[2].id \in swlog[1].with
  /\ swlog[1].out = "error" /\ swlog[2].out = "200"
  /\ swlog[1].id # swlog[2].id
  /\ \A c \in Handlers : hpc[c] = "idle"
  /\ current_camera = swlog[2].id /\ current_camera # InitialCamera

\* handler c takes a step for a /api/camera request whose id is an integer
\* that is not registered
UnregisteredStep(c) ==
  /\ hpc'[c] # hpc[c]
  /\ \/ req[c].kind = "camera" /\ req[c].id \notin cameras
     \/ req'[c].kind = "camera" /\ req'[c].id \notin cameras

\* C21: a /api/camera request whose id is not in the registry leaves
\* current_camera, camera_id, the device handle, the capture thread, the
\* frame queue and current_frame unchanged, and is answered 200 OK.
C21_UnregisteredIdChangesNothing ==
  [][\A c \in Handlers : UnregisteredStep(c) =>
       /\ UNCHANGED <<current_camera, streamerVars, threadVars>>
       /\ hpc'[c] \in {"api", "respond", "idle"}
       /\ hpc'[c] = "idle" => swlog'[req[c].n].out = "200"]_vars

C21_Witness ==
  /\ \E i \in 1..Len(swlog) : swlog[i].id \notin cameras /\ swlog[i].out = "200"
  /\ \A c \in Handlers : hpc[c] = "idle"
  /\ frame_queue # << >> /\ current_frame # NoFrame

=============================================================================
